---- MODULE Spec2Model ----
(***************************************************************************)
(* Consultancy time tracker: the relational store (users, clients,         *)
(* projects, positions, time entries, client notes), the create handlers   *)
(* that write it, and the reports that read it: budget consumption and     *)
(* utilization, both as one step on a store at rest and query by query,    *)
(* and booking details.                                                    *)
(*                                                                         *)
(* Numbers.  The handlers receive JavaScript numbers, store them in        *)
(* numeric(_, 2) columns and read them back as strings.  Handler inputs    *)
(* are modelled in thousandths, stored values in hundredths (cents,        *)
(* centi-hours), and the monetary fields of a report in 1/10000 of a       *)
(* currency unit (cents times centi-hours), so that every product and sum  *)
(* is an exact integer.  consumption_rate is an exact fraction in lowest   *)
(* terms.  Floating-point rounding of the products is not modelled.        *)
(*                                                                         *)
(* A nullable or optional value is <<>> when absent and <<v>> when it      *)
(* holds v.  Display names, descriptions and timestamps are not modelled.  *)
(* Serial ids are 1, 2, ... in insertion order.                            *)
(***************************************************************************)
EXTENDS Integers, Sequences, FiniteSets

VARIABLES users, clients, projects, positions, timeEntries, clientNotes,
          call, runs, utilization

vars == <<users, clients, projects, positions, timeEntries, clientNotes,
          call, runs, utilization>>

tables == <<users, clients, projects, positions, timeEntries, clientNotes>>

\* ---------------------------------------------------------------- bounds
MaxUsers == 1
\* Users in the specifications of the per-user reports.
MaxReportUsers == 2
MaxClients == 2
MaxProjects == 2
MaxPositions == 2
MaxEntries == 2
MaxNotes == 3
\* Invocations of the report followed query by query.
MaxRuns == 2

\* ------------------------------------------------------- optional values
NULL == <<>>
UNSET == <<>>
Some(v) == <<v>>
Val(o) == o[1]

\* JavaScript truthiness of a number | null | undefined: 0 is falsy.
TruthyNum(o) == o # NULL /\ Val(o) # 0

\* JavaScript truthiness of a string | null read from a numeric column: the
\* column's text ("0.00" included) is never the empty string.
TruthyStr(o) == o # NULL

\* A number written to a numeric(_, 2) column: thousandths to hundredths,
\* rounded half away from zero (inputs are positive).
ToNumeric2(m) == (m + 5) \div 10

\* date.toISOString().split('T')[0]: the UTC calendar day of an instant.
ToDate(instant) == instant \div 2

\* ---------------------------------------------------------- handler inputs
\* z.number().positive().nullable(): budgets, in thousandths
BudgetInputs == {NULL, Some(4), Some(30000)}
\* z.number().positive().nullable(): hourly rates, in thousandths
RateInputs == {NULL, Some(10000), Some(15000)}
\* z.number().positive(): hours, in thousandths
HoursInputs == {2000}
\* Instants, in half days since the epoch (2: day 1 at 00:00 UTC).
DateInputs == {2}
\* z.number(): ids named by a create input
IdInputs == 1..2
\* z.number().optional(): ids named by a report filter
FilterIds == {UNSET} \cup {Some(i) : i \in 0..2}

BudgetConsumptionInput ==
    [position_id : FilterIds, project_id : FilterIds, client_id : FilterIds]

\* The filters that set at most one id, to an id a serial column can hold.
OneScopeInputs ==
    {f \in [position_id : {UNSET} \cup {Some(i) : i \in IdInputs},
            project_id : {UNSET} \cup {Some(i) : i \in IdInputs},
            client_id : {UNSET} \cup {Some(i) : i \in IdInputs}] :
        Cardinality({k \in {"position_id", "project_id", "client_id"} :
                        f[k] # UNSET}) <= 1}

\* The inputs of SpecScope.
ScopeBudgetInputs == {NULL, Some(30000)}
ScopeRateInputs == {Some(10000)}

\* The inputs of SpecEntries: 0.004 h is stored as 0.00, 3.005 h as 3.01.
EntriesBudgetInputs == {Some(30000)}
EntriesHoursInputs == {4, 2000, 3005}

\* For SpecCreate: instants of two days, one of them not at midnight.
TracedDateInputs == {2, 3, 4}
\* For SpecNotes.
NoteInputs == {"first", "second"}
CreateClientNoteInputs ==
    [client_id : IdInputs, user_id : IdInputs, note : NoteInputs]

\* For SpecReports: hours whose ratios do not end after two decimals, instants
\* of three days (5: day 2 at noon), and periods bounded by such instants.
ReportHoursInputs == {1000, 2000}
ReportDateInputs == {2, 4, 5, 6}
PeriodInputs == {3, 4, 6}
UtilizationReportInput ==
    [user_id : FilterIds, start_date : PeriodInputs, end_date : PeriodInputs]
BookingDetailsInput ==
    [user_id : 0..2, start_date : PeriodInputs, end_date : PeriodInputs]

\* ------------------------------------------------------------------ store
\* The tables as one value, so that a query can be evaluated on any store.
db == [users |-> users, clients |-> clients, projects |-> projects,
       positions |-> positions, timeEntries |-> timeEntries,
       clientNotes |-> clientNotes]

Ids(table) == {table[i].id : i \in 1..Len(table)}

Row(table, id) == CHOOSE r \in {table[i] : i \in 1..Len(table)} : r.id = id

\* --------------------------------------------------------------- SQL parts
Rows(table) == {table[i] : i \in 1..Len(table)}

RECURSIVE SumHours(_)
SumHours(entries) ==
    IF entries = <<>> THEN 0
    ELSE Head(entries).hours + SumHours(Tail(entries))

\* sum(timeEntriesTable.hours) over the joined rows: NULL over no row.
sum(entries) == IF entries = <<>> THEN NULL ELSE Some(SumHours(entries))

RECURSIVE SumBudgets(_)
SumBudgets(rows) ==
    IF rows = <<>> THEN 0
    ELSE Val(Head(rows).budget) + SumBudgets(Tail(rows))

\* Faulty variant: one NULL budget makes the whole sum NULL, as an addition with
\* NULL does.
sumBudget_NullPoisons(rows) ==
    IF rows = <<>> \/ \E i \in 1..Len(rows) : rows[i].budget = NULL
    THEN NULL
    ELSE Some(SumBudgets(rows))

\* sum(projectsTable.budget): NULL budgets are skipped, NULL when none is left.
sumBudget(rows) ==
    LET budgeted == SelectSeq(rows, LAMBDA r : r.budget # NULL)
    IN  IF budgeted = <<>> THEN NULL ELSE Some(SumBudgets(budgeted))

\* Faulty variant: only the billable time entries are joined.
EntriesOfPosition_BillableOnly(store, positionId) ==
    SelectSeq(store.timeEntries,
              LAMBDA e : e.position_id = positionId /\ e.billable)

\* The time entries joined to one position.
EntriesOfPosition(store, positionId) ==
    SelectSeq(store.timeEntries, LAMBDA e : e.position_id = positionId)

RECURSIVE Gcd(_, _)
Gcd(a, b) == IF b = 0 THEN a ELSE Gcd(b, a % b)

\* The number n / d, d > 0, n >= 0, in lowest terms.
Ratio(n, d) == LET g == Gcd(n, d) IN [num |-> n \div g, den |-> d \div g]

Zero == Ratio(0, 1)

\* A stored amount (cents) in the unit of the report's monetary fields.
Amount(cents) == cents * 100

\* Faulty variant: the rate is capped at 100 percent.
consumptionRate_Clamped(totalBudget, consumedAmount) ==
    IF TruthyNum(totalBudget) /\ Val(totalBudget) > 0
    THEN IF consumedAmount > Amount(Val(totalBudget))
         THEN Ratio(100, 1)
         ELSE Ratio(consumedAmount * 100, Amount(Val(totalBudget)))
    ELSE Ratio(0, 1)

\* Faulty variant: the subtraction is made without testing the budget, null counting
\* as 0.
remainingBudget_Unguarded(totalBudget, consumedAmount) ==
    Some((IF totalBudget = NULL THEN 0 ELSE Amount(Val(totalBudget)))
         - consumedAmount)

\* consumptionRate and remainingBudget, computed alike at the three scopes.
\* totalBudget is an optional amount in cents.
consumptionRate(totalBudget, consumedAmount) ==
    IF TruthyNum(totalBudget) /\ Val(totalBudget) > 0
    THEN Ratio(consumedAmount * 100, Amount(Val(totalBudget)))
    ELSE Zero

remainingBudget(totalBudget, consumedAmount) ==
    IF TruthyNum(totalBudget)
    THEN Some(Amount(Val(totalBudget)) - consumedAmount)
    ELSE NULL

Report(type, id, totalBudget, consumedAmount) ==
    [entity_type |-> type,
     entity_id |-> id,
     total_budget |-> IF totalBudget = NULL THEN NULL
                      ELSE Some(Amount(Val(totalBudget))),
     consumed_amount |-> consumedAmount,
     consumption_rate |-> consumptionRate(totalBudget, consumedAmount),
     remaining_budget |-> remainingBudget(totalBudget, consumedAmount)]

\* ------------------------------------------------------ budget consumption
\* Each scope returns NULL (no report) or Some(report).
getPositionConsumption(store, positionId) ==
    IF positionId \notin Ids(store.positions) THEN NULL
    ELSE
      LET position == Row(store.positions, positionId)
          total_hours == sum(EntriesOfPosition(store, positionId))
          totalBudget == IF TruthyStr(position.budget)
                         THEN position.budget ELSE NULL
          hourlyRate == IF TruthyStr(position.hourly_rate)
                        THEN position.hourly_rate ELSE NULL
          totalHours == IF TruthyStr(total_hours) THEN Val(total_hours) ELSE 0
          consumedAmount == IF TruthyNum(hourlyRate) /\ totalHours > 0
                            THEN Val(hourlyRate) * totalHours
                            ELSE 0
      IN  Some(Report("position", position.id, totalBudget, consumedAmount))

\* Faulty variant: the join is not grouped by position: one row with all the hours
\* and the rate of the first position.
ConsumptionRows_Ungrouped(store, positionRows) ==
    LET joined == SelectSeq(positionRows,
                     LAMBDA p : EntriesOfPosition(store, p.id) # <<>>)
    IN  IF joined = <<>> THEN <<>>
        ELSE <<[total_hours |->
                   sum(SelectSeq(store.timeEntries,
                          LAMBDA e : \E i \in 1..Len(joined) :
                                        joined[i].id = e.position_id)),
                position_hourly_rate |-> joined[1].hourly_rate]>>

\* The rows of the grouped join of time entries and positions: one row per
\* position of the selected set that has at least one time entry.
ConsumptionRows(store, positionRows) ==
    LET joined == SelectSeq(positionRows,
                     LAMBDA p : EntriesOfPosition(store, p.id) # <<>>)
    IN  [i \in 1..Len(joined) |->
            [total_hours |-> sum(EntriesOfPosition(store, joined[i].id)),
             position_hourly_rate |-> joined[i].hourly_rate]]

\* Faulty variant: a position without a rate is billed at 1.00 per hour.
RECURSIVE SumConsumption_DefaultRate(_)
SumConsumption_DefaultRate(consumptionResult) ==
    IF consumptionResult = <<>> THEN 0
    ELSE LET consumption == Head(consumptionResult)
             hours == IF TruthyStr(consumption.total_hours)
                      THEN Val(consumption.total_hours) ELSE 0
             rate == IF TruthyStr(consumption.position_hourly_rate)
                     THEN Val(consumption.position_hourly_rate) ELSE 100
         IN  hours * rate + SumConsumption_DefaultRate(Tail(consumptionResult))

\* The loop that adds hours * rate over the grouped rows.
RECURSIVE SumConsumption(_)
SumConsumption(consumptionResult) ==
    IF consumptionResult = <<>> THEN 0
    ELSE LET consumption == Head(consumptionResult)
             hours == IF TruthyStr(consumption.total_hours)
                      THEN Val(consumption.total_hours) ELSE 0
             rate == IF TruthyStr(consumption.position_hourly_rate)
                     THEN Val(consumption.position_hourly_rate) ELSE 0
         IN  hours * rate + SumConsumption(Tail(consumptionResult))

getProjectConsumption(store, projectId) ==
    IF projectId \notin Ids(store.projects) THEN NULL
    ELSE
      LET project == Row(store.projects, projectId)
          totalBudget == IF TruthyStr(project.budget)
                         THEN project.budget ELSE NULL
          consumptionResult ==
              ConsumptionRows(store,
                  SelectSeq(store.positions,
                            LAMBDA p : p.project_id = projectId))
          consumedAmount == SumConsumption(consumptionResult)
      IN  Some(Report("project", project.id, totalBudget, consumedAmount))

\* Faulty variant: the consumption query is not restricted to the client's projects.
getClientConsumption_AllPositions(store, clientId) ==
    IF clientId \notin Ids(store.clients) THEN NULL
    ELSE
      LET client == Row(store.clients, clientId)
          budgetResult ==
              sumBudget(SelectSeq(store.projects,
                                  LAMBDA p : p.client_id = clientId))
          totalBudget == IF TruthyStr(budgetResult) THEN budgetResult ELSE NULL
          consumptionResult == ConsumptionRows(store, store.positions)
          consumedAmount == SumConsumption(consumptionResult)
      IN  Some(Report("client", client.id, totalBudget, consumedAmount))

getClientConsumption(store, clientId) ==
    IF clientId \notin Ids(store.clients) THEN NULL
    ELSE
      LET client == Row(store.clients, clientId)
          budgetResult ==
              sumBudget(SelectSeq(store.projects,
                                  LAMBDA p : p.client_id = clientId))
          totalBudget == IF TruthyStr(budgetResult) THEN budgetResult ELSE NULL
          consumptionResult ==
              ConsumptionRows(store,
                  SelectSeq(store.positions,
                     LAMBDA p : \E j \in Rows(store.projects) :
                                   /\ j.id = p.project_id
                                   /\ j.client_id = clientId))
          consumedAmount == SumConsumption(consumptionResult)
      IN  Some(Report("client", client.id, totalBudget, consumedAmount))

\* The orders in which a query without ORDER BY may return the rows S.
Orders(S) ==
    {s \in [1..Cardinality(S) -> S] :
        \A i, j \in 1..Cardinality(S) : i # j => s[i] # s[j]}

\* The reports of a list of ids at one scope, in the order of the list; a
\* scope that yields no report is skipped.
RECURSIVE ReportsOf(_, _, _)
ReportsOf(store, type, ids) ==
    IF ids = <<>> THEN <<>>
    ELSE LET r == CASE type = "client" ->
                           getClientConsumption(store, Head(ids))
                    [] type = "project" ->
                           getProjectConsumption(store, Head(ids))
                    [] type = "position" ->
                           getPositionConsumption(store, Head(ids))
         IN  r \o ReportsOf(store, type, Tail(ids))

\* Faulty variant: the clients query joins the budgeted projects without
\* grouping by client, so a client comes once per budgeted project.
getAllBudgetConsumption_Ungrouped(store) ==
    LET joined ==
            {<<c.id, p.id>> : c \in Rows(store.clients),
                              p \in {p \in Rows(store.projects) :
                                        p.budget # NULL}}
        clientsWithBudgets ==
            {j \in joined : Row(store.projects, j[2]).client_id = j[1]}
        projectsWithBudgets ==
            {p.id : p \in {p \in Rows(store.projects) : p.budget # NULL}}
        positionsWithBudgets ==
            {p.id : p \in {p \in Rows(store.positions) : p.budget # NULL}}
    IN  {ReportsOf(store, "client", [k \in 1..Len(cs) |-> cs[k][1]])
             \o ReportsOf(store, "project", ps)
             \o ReportsOf(store, "position", qs) :
           cs \in Orders(clientsWithBudgets),
           ps \in Orders(projectsWithBudgets),
           qs \in Orders(positionsWithBudgets)}

\* Faulty variant: the clients query keeps every client that has a project,
\* budgeted or not.
getAllBudgetConsumption_AnyProject(store) ==
    LET clientsWithBudgets ==
            {c.id : c \in {c \in Rows(store.clients) :
                \E p \in Rows(store.projects) : p.client_id = c.id}}
        projectsWithBudgets ==
            {p.id : p \in {p \in Rows(store.projects) : p.budget # NULL}}
        positionsWithBudgets ==
            {p.id : p \in {p \in Rows(store.positions) : p.budget # NULL}}
    IN  {ReportsOf(store, "client", cs) \o ReportsOf(store, "project", ps)
             \o ReportsOf(store, "position", qs) :
           cs \in Orders(clientsWithBudgets),
           ps \in Orders(projectsWithBudgets),
           qs \in Orders(positionsWithBudgets)}

\* Faulty variant: the three loops run in the opposite order, positions first.
getAllBudgetConsumption_PositionsFirst(store) ==
    LET clientsWithBudgets ==
            {c.id : c \in {c \in Rows(store.clients) :
                \E p \in Rows(store.projects) :
                    p.client_id = c.id /\ p.budget # NULL}}
        projectsWithBudgets ==
            {p.id : p \in {p \in Rows(store.projects) : p.budget # NULL}}
        positionsWithBudgets ==
            {p.id : p \in {p \in Rows(store.positions) : p.budget # NULL}}
    IN  {ReportsOf(store, "position", qs) \o ReportsOf(store, "project", ps)
             \o ReportsOf(store, "client", cs) :
           cs \in Orders(clientsWithBudgets),
           ps \in Orders(projectsWithBudgets),
           qs \in Orders(positionsWithBudgets)}

\* The possible results of getAllBudgetConsumption: client rows, then project
\* rows, then position rows, each query's rows in any order.
getAllBudgetConsumption(store) ==
    LET clientsWithBudgets ==
            {c.id : c \in {c \in Rows(store.clients) :
                \E p \in Rows(store.projects) :
                    p.client_id = c.id /\ p.budget # NULL}}
        projectsWithBudgets ==
            {p.id : p \in {p \in Rows(store.projects) : p.budget # NULL}}
        positionsWithBudgets ==
            {p.id : p \in {p \in Rows(store.positions) : p.budget # NULL}}
    IN  {ReportsOf(store, "client", cs) \o ReportsOf(store, "project", ps)
             \o ReportsOf(store, "position", qs) :
           cs \in Orders(clientsWithBudgets),
           ps \in Orders(projectsWithBudgets),
           qs \in Orders(positionsWithBudgets)}

\* The branch getBudgetConsumption(input) takes: the ids are tested for
\* truthiness, position_id first.
scopeOf(input) ==
    IF TruthyNum(input.position_id) THEN "position"
    ELSE IF TruthyNum(input.project_id) THEN "project"
    ELSE IF TruthyNum(input.client_id) THEN "client"
    ELSE "all"

\* The possible results of getBudgetConsumption(input).
getBudgetConsumption(store, input) ==
    CASE scopeOf(input) = "position" ->
             {getPositionConsumption(store, Val(input.position_id))}
      [] scopeOf(input) = "project" ->
             {getProjectConsumption(store, Val(input.project_id))}
      [] scopeOf(input) = "client" ->
             {getClientConsumption(store, Val(input.client_id))}
      [] scopeOf(input) = "all" -> getAllBudgetConsumption(store)

\* ------------------------------------------------------ utilization report
\* Faulty variant: the end of the period is excluded (lt for lte).
InPeriod_EndExclusive(store, userId, input) ==
    LET startDateStr == ToDate(input.start_date)
        endDateStr == ToDate(input.end_date)
    IN  SelectSeq(store.timeEntries,
                  LAMBDA e : /\ e.user_id = userId
                             /\ e.date >= startDateStr
                             /\ e.date < endDateStr)

\* The time entries the conditions select: the user's, dated within the days
\* of start_date and end_date.
InPeriod(store, userId, input) ==
    LET startDateStr == ToDate(input.start_date)
        endDateStr == ToDate(input.end_date)
    IN  SelectSeq(store.timeEntries,
                  LAMBDA e : /\ e.user_id = userId
                             /\ e.date >= startDateStr
                             /\ e.date <= endDateStr)

totalHoursQuery(store, userId, input) == sum(InPeriod(store, userId, input))

billableHoursQuery(store, userId, input) ==
    sum(SelectSeq(InPeriod(store, userId, input), LAMBDA e : e.billable))

\* Faulty variant: the rate is cut to two decimal places, not rounded.
RoundedRate_Truncating(billableHours, totalHours) ==
    (billableHours * 10000) \div totalHours

\* Math.round(billableHours / totalHours * 100 * 100) / 100, in hundredths of
\* a percent; a half rounds up.
RoundedRate(billableHours, totalHours) ==
    (2 * billableHours * 10000 + totalHours) \div (2 * totalHours)

\* The report of one user from the results of the two sums (hours in
\* hundredths).
UtilizationReport(userId, totalResult, billableResult, input) ==
    LET totalHours == IF TruthyStr(totalResult) THEN Val(totalResult) ELSE 0
        billableHours == IF TruthyStr(billableResult)
                         THEN Val(billableResult) ELSE 0
    IN  [user_id |-> userId,
         total_hours |-> totalHours,
         billable_hours |-> billableHours,
         utilization_rate |-> IF totalHours > 0
                              THEN RoundedRate(billableHours, totalHours)
                              ELSE 0,
         period_start |-> input.start_date,
         period_end |-> input.end_date]

\* The users the first query selects: the one named by a truthy user_id, or
\* all of them.
usersOf(store, input) ==
    IF TruthyNum(input.user_id)
    THEN {Val(input.user_id)} \cap Ids(store.users)
    ELSE Ids(store.users)

\* The possible results of getUtilizationReport(input) on a store at rest: one
\* report per selected user, in the order the users query returns them.
getUtilizationReport(store, input) ==
    {[k \in 1..Len(order) |->
         UtilizationReport(order[k],
                           totalHoursQuery(store, order[k], input),
                           billableHoursQuery(store, order[k], input),
                           input)] :
       order \in Orders(usersOf(store, input))}

\* --------------------------------------------------------- booking details
\* The rows of the join of time entries with their position, project and
\* client, restricted to the user and the days of the period.
bookingRows(store, input) ==
    {e \in Rows(store.timeEntries) :
        /\ \E q \in Rows(store.positions) :
              /\ q.id = e.position_id
              /\ \E j \in Rows(store.projects) :
                    /\ j.id = q.project_id
                    /\ \E c \in Rows(store.clients) : c.id = j.client_id
        /\ e.user_id = input.user_id
        /\ e.date >= ToDate(input.start_date)
        /\ e.date <= ToDate(input.end_date)}

\* orderBy(desc(date)): the orders the query may return the rows in, rows of
\* one date in any order.
OrderedByDateDesc(rows) ==
    {s \in Orders(rows) :
        \A i, j \in 1..Len(s) : i < j => s[i].date >= s[j].date}

\* The keys of the Map entriesByDate, in the order of their insertion.
RECURSIVE DateKeys(_)
DateKeys(results) ==
    IF results = <<>> THEN <<>>
    ELSE <<Head(results).date>>
         \o DateKeys(SelectSeq(Tail(results),
                               LAMBDA r : r.date # Head(results).date))

\* One element of bookingDetails: the entries of one date and their hours.
BookingGroup(dateString, results) ==
    LET entries == SelectSeq(results, LAMBDA r : r.date = dateString)
    IN  [date |-> dateString,
         total_hours |-> SumHours(entries),
         entries |-> [m \in 1..Len(entries) |->
                         [time_entry_id |-> entries[m].id,
                          hours |-> entries[m].hours,
                          billable |-> entries[m].billable]]]

\* Faulty variant: the comparison is turned round, oldest date first.
SortByDateDesc_Ascending(bookingDetails) ==
    CHOOSE s \in Orders(Rows(bookingDetails)) :
        \A i, j \in 1..Len(s) : i < j => s[i].date <= s[j].date

\* bookingDetails.sort((a, b) => b.date.getTime() - a.date.getTime()); the
\* dates of the groups differ.
SortByDateDesc(bookingDetails) ==
    CHOOSE s \in Orders(Rows(bookingDetails)) :
        \A i, j \in 1..Len(s) : i < j => s[i].date >= s[j].date

\* The possible results of getBookingDetails(input).
getBookingDetails(store, input) ==
    {SortByDateDesc([k \in 1..Len(DateKeys(results)) |->
                        BookingGroup(DateKeys(results)[k], results)]) :
       results \in OrderedByDateDesc(bookingRows(store, input))}

NoCall == [op |-> "none", input |-> <<>>, scope |-> "none", threw |-> FALSE,
           error |-> "", reports |-> <<>>]

Done(opName, didThrow) ==
    [op |-> opName, input |-> <<>>, scope |-> "none", threw |-> didThrow,
     error |-> "", reports |-> <<>>]

\* An invocation of the report that has not been made yet.
IdleRun ==
    [status |-> "idle", input |-> <<>>, plan |-> <<>>, reports |-> <<>>,
     result |-> NULL, failed |-> FALSE, after |-> {}]

\* An invocation of the utilization report that has not been made yet.
IdleUtilization ==
    [status |-> "idle", input |-> <<>>, users |-> <<>>, answered |-> {},
     totalResult |-> NULL, billableResult |-> NULL, reports |-> <<>>,
     result |-> NULL]

Init ==
    /\ users = <<>>
    /\ clients = <<>>
    /\ projects = <<>>
    /\ positions = <<>>
    /\ timeEntries = <<>>
    /\ clientNotes = <<>>
    /\ call = NoCall
    /\ runs = [i \in 1..MaxRuns |-> IdleRun]
    /\ utilization = IdleUtilization

\* --------------------------------------------------------- create handlers
\* Each handler is an action over the set its inputs are drawn from.  Requests
\* are served one at a time: `call' holds the handler that ran, whether it
\* threw, and what a report handler was given and returned, until Return.
CreateUsers(limit) ==
    /\ call = NoCall
    /\ UNCHANGED <<runs, utilization>>
    /\ Len(users) < limit
    /\ users' = Append(users, [id |-> Len(users) + 1])
    /\ call' = Done("createUser", FALSE)
    /\ UNCHANGED <<clients, projects, positions, timeEntries, clientNotes>>

CreateUser == CreateUsers(MaxUsers)

CreateClient ==
    /\ call = NoCall
    /\ UNCHANGED <<runs, utilization>>
    /\ Len(clients) < MaxClients
    /\ clients' = Append(clients, [id |-> Len(clients) + 1])
    /\ call' = Done("createClient", FALSE)
    /\ UNCHANGED <<users, projects, positions, timeEntries, clientNotes>>

\* Faulty variant: projects.client_id has no foreign key: the row is inserted
\* whatever client it names.
CreateProject_NoForeignKey(budgets) ==
    /\ call = NoCall
    /\ UNCHANGED <<runs, utilization>>
    /\ \E client_id \in IdInputs, budget \in budgets :
        /\ Len(projects) < MaxProjects
        /\ projects' = Append(projects,
               [id |-> Len(projects) + 1,
                client_id |-> client_id,
                budget |-> IF TruthyNum(budget)
                           THEN Some(ToNumeric2(Val(budget)))
                           ELSE NULL])
        /\ call' = Done("createProject", FALSE)
        /\ UNCHANGED <<users, clients, positions, timeEntries, clientNotes>>

\* The insert fails on the foreign key when the client does not exist.
CreateProject(budgets) ==
    /\ call = NoCall
    /\ UNCHANGED <<runs, utilization>>
    /\ \E client_id \in IdInputs, budget \in budgets :
        IF client_id \in Ids(clients)
        THEN /\ Len(projects) < MaxProjects
             /\ projects' = Append(projects,
                    [id |-> Len(projects) + 1,
                     client_id |-> client_id,
                     budget |-> IF TruthyNum(budget)
                                THEN Some(ToNumeric2(Val(budget)))
                                ELSE NULL])
             /\ call' = Done("createProject", FALSE)
             /\ UNCHANGED <<users, clients, positions, timeEntries, clientNotes>>
        ELSE /\ call' = Done("createProject", TRUE)
             /\ UNCHANGED tables

\* The insert fails on the foreign key when the project does not exist.
CreatePosition(budgets, rates) ==
    /\ call = NoCall
    /\ UNCHANGED <<runs, utilization>>
    /\ \E project_id \in IdInputs, budget \in budgets, hourly_rate \in rates :
        IF project_id \in Ids(projects)
        THEN /\ Len(positions) < MaxPositions
             /\ positions' = Append(positions,
                    [id |-> Len(positions) + 1,
                     project_id |-> project_id,
                     budget |-> IF budget # NULL
                                THEN Some(ToNumeric2(Val(budget)))
                                ELSE NULL,
                     hourly_rate |-> IF hourly_rate # NULL
                                     THEN Some(ToNumeric2(Val(hourly_rate)))
                                     ELSE NULL])
             /\ call' = Done("createPosition", FALSE)
             /\ UNCHANGED <<users, clients, projects, timeEntries, clientNotes>>
        ELSE /\ call' = Done("createPosition", TRUE)
             /\ UNCHANGED tables

\* The inputs createTimeEntry is given.
CreateTimeEntryInputs(hoursInputs, dates, billables) ==
    [user_id : IdInputs, position_id : IdInputs, hours : hoursInputs,
     date : dates, billable : billables]

\* What a handler that threw an error with `message' leaves for its caller.
Thrown(opName, message, request) ==
    [Done(opName, TRUE) EXCEPT !.error = message, !.input = request]

\* Faulty variant: an entry of the same user, position and day is overwritten
\* instead of a row being added.
createTimeEntry_Upsert(input, request) ==
    IF input.user_id \notin Ids(users)
    THEN /\ call' = Thrown("createTimeEntry", "User does not exist", request)
         /\ UNCHANGED tables
    ELSE IF input.position_id \notin Ids(positions)
    THEN /\ call' = Thrown("createTimeEntry", "Position does not exist",
                           request)
         /\ UNCHANGED tables
    ELSE LET same == {k \in 1..Len(timeEntries) :
                        /\ timeEntries[k].user_id = input.user_id
                        /\ timeEntries[k].position_id = input.position_id
                        /\ timeEntries[k].date = ToDate(input.date)}
         IN  /\ IF same # {}
                THEN timeEntries' =
                       [timeEntries EXCEPT
                          ![CHOOSE k \in same : TRUE] =
                              [@ EXCEPT !.hours = ToNumeric2(input.hours),
                                        !.billable = input.billable]]
                ELSE /\ Len(timeEntries) < MaxEntries
                     /\ timeEntries' = Append(timeEntries,
                            [id |-> Len(timeEntries) + 1,
                             user_id |-> input.user_id,
                             position_id |-> input.position_id,
                             hours |-> ToNumeric2(input.hours),
                             date |-> ToDate(input.date),
                             billable |-> input.billable])
             /\ call' = [Done("createTimeEntry", FALSE)
                           EXCEPT !.input = request]
             /\ UNCHANGED <<users, clients, projects, positions, clientNotes>>

\* Faulty variant: the user is not looked up before the insert.
createTimeEntry_UserUnchecked(input, request) ==
    IF input.position_id \notin Ids(positions)
    THEN /\ call' = Thrown("createTimeEntry", "Position does not exist",
                           request)
         /\ UNCHANGED tables
    ELSE /\ Len(timeEntries) < MaxEntries
         /\ timeEntries' = Append(timeEntries,
                [id |-> Len(timeEntries) + 1,
                 user_id |-> input.user_id,
                 position_id |-> input.position_id,
                 hours |-> ToNumeric2(input.hours),
                 date |-> ToDate(input.date),
                 billable |-> input.billable])
         /\ call' = [Done("createTimeEntry", FALSE) EXCEPT !.input = request]
         /\ UNCHANGED <<users, clients, projects, positions, clientNotes>>

\* createTimeEntry on one input: the user is looked up, then the position,
\* then the row is inserted.  `request' is what the caller keeps of the input.
createTimeEntry(input, request) ==
    IF input.user_id \notin Ids(users)
    THEN /\ call' = Thrown("createTimeEntry", "User does not exist", request)
         /\ UNCHANGED tables
    ELSE IF input.position_id \notin Ids(positions)
    THEN /\ call' = Thrown("createTimeEntry", "Position does not exist",
                           request)
         /\ UNCHANGED tables
    ELSE /\ Len(timeEntries) < MaxEntries
         /\ timeEntries' = Append(timeEntries,
                [id |-> Len(timeEntries) + 1,
                 user_id |-> input.user_id,
                 position_id |-> input.position_id,
                 hours |-> ToNumeric2(input.hours),
                 date |-> ToDate(input.date),
                 billable |-> input.billable])
         /\ call' = [Done("createTimeEntry", FALSE) EXCEPT !.input = request]
         /\ UNCHANGED <<users, clients, projects, positions, clientNotes>>

CreateTimeEntry(hoursInputs, billables) ==
    /\ call = NoCall
    /\ UNCHANGED <<runs, utilization>>
    /\ \E input \in CreateTimeEntryInputs(hoursInputs, DateInputs, billables) :
        createTimeEntry(input, <<>>)

\* createTimeEntry with the input kept beside the outcome.
CreateTimeEntryTraced(inputs) ==
    /\ call = NoCall
    /\ UNCHANGED <<runs, utilization>>
    /\ \E input \in inputs : createTimeEntry(input, Some(input))

\* Faulty variant: a client has one note, which a later note replaces.
insertNote_Upsert(table, values) ==
    IF \E i \in 1..Len(table) : table[i].client_id = values.client_id
    THEN [i \in 1..Len(table) |->
             IF table[i].client_id = values.client_id
             THEN [table[i] EXCEPT !.user_id = values.user_id,
                                   !.note = values.note]
             ELSE table[i]]
    ELSE Append(table,
                [id |-> Len(table) + 1, client_id |-> values.client_id,
                 user_id |-> values.user_id, note |-> values.note])

\* insert(clientNotesTable).values(...): one new row with the next serial id.
insertNote(table, values) ==
    Append(table,
           [id |-> Len(table) + 1, client_id |-> values.client_id,
            user_id |-> values.user_id, note |-> values.note])

\* createClientNote: the client is looked up, then the user, then the note is
\* inserted.
CreateClientNote(inputs) ==
    /\ call = NoCall
    /\ UNCHANGED <<runs, utilization>>
    /\ \E input \in inputs :
        IF input.client_id \notin Ids(clients)
        THEN /\ call' = Thrown("createClientNote", "Client not found",
                               Some(input))
             /\ UNCHANGED tables
        ELSE IF input.user_id \notin Ids(users)
        THEN /\ call' = Thrown("createClientNote", "User not found",
                               Some(input))
             /\ UNCHANGED tables
        ELSE /\ Len(clientNotes) < MaxNotes
             /\ clientNotes' = insertNote(clientNotes, input)
             /\ call' = [Done("createClientNote", FALSE)
                            EXCEPT !.input = Some(input)]
             /\ UNCHANGED <<users, clients, projects, positions, timeEntries>>

\* ---------------------------------------------------------- report handler
\* Read-only: the tables are left as they are.
GetBudgetConsumption(inputs) ==
    /\ call = NoCall
    /\ UNCHANGED <<runs, utilization>>
    /\ \E input \in inputs :
        \E reports \in getBudgetConsumption(db, input) :
            /\ call' = [op |-> "getBudgetConsumption", input |-> input,
                        scope |-> scopeOf(input), threw |-> FALSE,
                        error |-> "", reports |-> reports]
            /\ UNCHANGED tables

GetUtilizationReport(inputs) ==
    /\ call = NoCall
    /\ UNCHANGED <<runs, utilization>>
    /\ \E input \in inputs :
        \E reports \in getUtilizationReport(db, input) :
            /\ call' = [op |-> "getUtilizationReport", input |-> input,
                        scope |-> "none", threw |-> FALSE,
                        error |-> "", reports |-> reports]
            /\ UNCHANGED tables

GetBookingDetails(inputs) ==
    /\ call = NoCall
    /\ UNCHANGED <<runs, utilization>>
    /\ \E input \in inputs :
        \E bookingDetails \in getBookingDetails(db, input) :
            /\ call' = [op |-> "getBookingDetails", input |-> input,
                        scope |-> "none", threw |-> FALSE,
                        error |-> "", reports |-> bookingDetails]
            /\ UNCHANGED tables

\* The procedure hands the handler's result or error to the caller; the next
\* request is served after that.
Return ==
    /\ call # NoCall
    /\ UNCHANGED <<runs, utilization>>
    /\ call' = NoCall
    /\ UNCHANGED tables

\* ------------------------------------------- the report, query by query
\* An invocation of getBudgetConsumption awaits one store query after the
\* other; other invocations take their steps in between.  runs[i] holds what
\* invocation i has in hand: the work left (plan), the rows built so far
\* (reports), and how it ended (status, result).
RunInputs ==
    {f \in OneScopeInputs : \A k \in DOMAIN f : f[k] \in {UNSET, Some(1)}}

\* A list query of the unscoped report, still to be issued.
ListItem(type) ==
    [kind |-> "list", type |-> type, id |-> 0, step |-> 0,
     totalBudget |-> NULL]

\* The report of one entity, its first query still to be issued.
EntityItem(type, id) ==
    [kind |-> "entity", type |-> type, id |-> id, step |-> 1,
     totalBudget |-> NULL]

\* The work the branch taken for `input' begins with.
planOf(input) ==
    CASE scopeOf(input) = "position" ->
             <<EntityItem("position", Val(input.position_id))>>
      [] scopeOf(input) = "project" ->
             <<EntityItem("project", Val(input.project_id))>>
      [] scopeOf(input) = "client" ->
             <<EntityItem("client", Val(input.client_id))>>
      [] scopeOf(input) = "all" ->
             <<ListItem("client"), ListItem("project"), ListItem("position")>>

\* The ids a list query of the unscoped report selects.
withBudgets(store, type) ==
    CASE type = "client" ->
             {c.id : c \in {c \in Rows(store.clients) :
                 \E p \in Rows(store.projects) :
                     p.client_id = c.id /\ p.budget # NULL}}
      [] type = "project" ->
             {p.id : p \in {p \in Rows(store.projects) : p.budget # NULL}}
      [] type = "position" ->
             {p.id : p \in {p \in Rows(store.positions) : p.budget # NULL}}

\* Faulty variant: the rows array is not emptied between invocations: a new
\* invocation starts from the rows of the invocations that have ended.
NewRun_KeepsRows(rs, input) ==
    LET ended == {j \in DOMAIN rs : rs[j].status \in {"returned", "threw"}}
    IN  [status |-> "running", input |-> input, plan |-> planOf(input),
         reports |-> IF ended = {} THEN <<>>
                     ELSE rs[CHOOSE j \in ended : TRUE].reports,
         result |-> NULL, failed |-> FALSE, after |-> ended]

\* A fresh invocation: nothing built yet.  `after' names the
\* invocations that had ended when this one was made.
NewRun(rs, input) ==
    [status |-> "running", input |-> input, plan |-> planOf(input),
     reports |-> <<>>, result |-> NULL, failed |-> FALSE,
     after |-> {j \in DOMAIN rs : rs[j].status \in {"returned", "threw"}}]

\* Faulty variant: one rows array is shared by all invocations.
pushed_SharedArray(rs, i, report) ==
    LET longest == CHOOSE j \in DOMAIN rs :
                      \A k \in DOMAIN rs :
                          Len(rs[k].reports) <= Len(rs[j].reports)
    IN  rs[longest].reports \o report

\* The rows of invocation i after `if (report) reports.push(report)'.
pushed(rs, i, report) == rs[i].reports \o report

\* Invocation `run' after a query that succeeded, with the work and the rows
\* it has then; with no work left it returns the rows.
Advance(run, plan, reports) ==
    [run EXCEPT !.plan = plan,
                !.reports = reports,
                !.status = IF plan = <<>> THEN "returned" ELSE "running",
                !.result = IF plan = <<>> THEN Some(reports) ELSE NULL]

\* Invocation i after its next query, answered from `store'; `rows' is the
\* order in which a list query returns its rows.
QueryStep(store, rs, i, rows) ==
    LET run == rs[i]
        item == Head(run.plan)
        rest == Tail(run.plan)
        positionsOf ==
            IF item.type = "project"
            THEN SelectSeq(store.positions,
                           LAMBDA p : p.project_id = item.id)
            ELSE SelectSeq(store.positions,
                     LAMBDA p : \E j \in Rows(store.projects) :
                                   /\ j.id = p.project_id
                                   /\ j.client_id = item.id)
        consumedAmount == SumConsumption(ConsumptionRows(store, positionsOf))
        table == IF item.type = "project" THEN store.projects
                 ELSE store.clients
    IN  CASE item.kind = "list" ->
                 Advance(run,
                         [k \in 1..Len(rows) |-> EntityItem(item.type, rows[k])]
                             \o rest,
                         run.reports)
          [] item.kind = "entity" /\ item.type = "position" ->
                 Advance(run, rest,
                         pushed(rs, i, getPositionConsumption(store, item.id)))
          [] item.kind = "entity" /\ item.type # "position"
                /\ item.step = 1 ->
                 IF item.id \notin Ids(table)
                 THEN Advance(run, rest, run.reports)
                 ELSE IF item.type = "project"
                 THEN Advance(run,
                         <<[item EXCEPT
                              !.step = 3,
                              !.totalBudget =
                                  Row(store.projects, item.id).budget]>>
                             \o rest,
                         run.reports)
                 ELSE Advance(run, <<[item EXCEPT !.step = 2]>> \o rest,
                              run.reports)
          [] item.kind = "entity" /\ item.type = "client"
                /\ item.step = 2 ->
                 Advance(run,
                         <<[item EXCEPT
                              !.step = 3,
                              !.totalBudget =
                                  sumBudget(SelectSeq(store.projects,
                                      LAMBDA p : p.client_id = item.id))]>>
                             \o rest,
                         run.reports)
          [] item.kind = "entity" /\ item.type # "position"
                /\ item.step = 3 ->
                 Advance(run, rest,
                         pushed(rs, i,
                                Some(Report(item.type, item.id,
                                            item.totalBudget,
                                            consumedAmount))))

\* Faulty variant: the error is swallowed and the rows built so far are returned.
FailOutcome_ReturnsRows(run) ==
    [run EXCEPT !.failed = TRUE,
                !.plan = <<>>,
                !.status = "returned",
                !.result = Some(run.reports)]

\* Invocation `run' after a query that failed: the error is logged and
\* thrown again to the caller; the work left is abandoned.
FailOutcome(run) ==
    [run EXCEPT !.failed = TRUE,
                !.plan = <<>>,
                !.status = "threw"]

\* No invocation followed query by query has been made yet.
Quiet == \A i \in 1..MaxRuns : runs[i].status = "idle"

StartRun(inputs) ==
    /\ call = NoCall
    /\ \E i \in 1..MaxRuns, input \in inputs :
        /\ runs[i].status = "idle"
        /\ \A j \in 1..(i - 1) : runs[j].status # "idle"
        /\ runs' = [runs EXCEPT ![i] = NewRun(runs, input)]
    /\ UNCHANGED <<tables, call, utilization>>

\* The next query of an invocation is answered by the store.
StepRun ==
    /\ \E i \in 1..MaxRuns :
        /\ runs[i].status = "running"
        /\ LET item == Head(runs[i].plan)
           IN  \E rows \in (IF item.kind = "list"
                            THEN Orders(withBudgets(db, item.type))
                            ELSE {<<>>}) :
                  runs' = [runs EXCEPT ![i] = QueryStep(db, runs, i, rows)]
    /\ UNCHANGED <<tables, call, utilization>>

\* Faulty variant: on a failed query the handler undoes what it takes for its own
\* work and deletes the time entries.
FailRun_Deleting ==
    /\ \E i \in 1..MaxRuns :
        /\ runs[i].status = "running"
        /\ runs' = [runs EXCEPT ![i] = FailOutcome(runs[i])]
    /\ timeEntries' = <<>>
    /\ UNCHANGED <<users, clients, projects, positions, clientNotes, call,
                   utilization>>

\* The next query of an invocation fails.
FailRun ==
    /\ \E i \in 1..MaxRuns :
        /\ runs[i].status = "running"
        /\ runs' = [runs EXCEPT ![i] = FailOutcome(runs[i])]
    /\ UNCHANGED <<tables, call, utilization>>

\* ------------------------------------- the utilization report, query by query
\* An invocation of getUtilizationReport awaits the users query, then for one
\* user after the other issues the total-hours and the billable-hours query
\* together and awaits both; the store answers the two in either order, and
\* other requests commit in between.  `utilization' holds what the one
\* invocation followed has in hand: the users left (the first is the one whose
\* queries are in flight), the queries answered, their results, the rows built.
UtilizationRunInputs ==
    {f \in UtilizationReportInput :
        f.user_id \in {UNSET, Some(1)} /\ f.start_date = 3}

\* The invocation once the rows of `order' are awaited: with no user it
\* returns the empty list.
withUsers(run, order) ==
    [run EXCEPT !.users = order,
                !.status = IF order = <<>> THEN "returned" ELSE "running",
                !.result = IF order = <<>> THEN Some(<<>>) ELSE NULL]

\* The invocation after `store' answers `query' for the user at hand.  With
\* both queries answered the user's row is pushed and the next user's
\* queries are issued; after the last user the rows are returned.
answeredQuery(store, run, query) ==
    LET userId == Head(run.users)
        totalResult == IF query = "total"
                       THEN totalHoursQuery(store, userId, run.input)
                       ELSE run.totalResult
        billableResult == IF query = "billable"
                          THEN billableHoursQuery(store, userId, run.input)
                          ELSE run.billableResult
        reports == run.reports \o
                     <<UtilizationReport(userId, totalResult, billableResult,
                                         run.input)>>
        rest == Tail(run.users)
    IN  IF run.answered = {}
        THEN [run EXCEPT !.answered = {query},
                         !.totalResult = totalResult,
                         !.billableResult = billableResult]
        ELSE [run EXCEPT !.answered = {},
                         !.totalResult = NULL,
                         !.billableResult = NULL,
                         !.users = rest,
                         !.reports = reports,
                         !.status = IF rest = <<>> THEN "returned"
                                    ELSE "running",
                         !.result = IF rest = <<>> THEN Some(reports)
                                    ELSE NULL]

StartUtilization(inputs) ==
    /\ call = NoCall
    /\ utilization.status = "idle"
    /\ \E input \in inputs :
          utilization' = [IdleUtilization EXCEPT !.status = "started",
                                                 !.input = input]
    /\ UNCHANGED <<tables, call, runs>>

\* The users query is answered by the store.
UsersQuery ==
    /\ utilization.status = "started"
    /\ \E order \in Orders(usersOf(db, utilization.input)) :
          utilization' = withUsers(utilization, order)
    /\ UNCHANGED <<tables, call, runs>>

\* One of the two queries in flight is answered by the store.
AnswerQuery ==
    /\ utilization.status = "running"
    /\ \E query \in {"total", "billable"} \ utilization.answered :
          utilization' = answeredQuery(db, utilization, query)
    /\ UNCHANGED <<tables, call, runs>>

\* A query of the invocation fails: the error is logged and thrown again.
FailUtilization ==
    /\ utilization.status \in {"started", "running"}
    /\ utilization' = [utilization EXCEPT !.status = "threw"]
    /\ UNCHANGED <<tables, call, runs>>

\* ----------------------------------------------------------- specifications
\* Spec: every kind of budget, rate and time entry; the report is asked for
\* one scope at a time or for none.
Next ==
    \/ CreateUser
    \/ CreateClient
    \/ CreateProject(BudgetInputs)
    \/ CreatePosition(BudgetInputs, RateInputs)
    \/ CreateTimeEntry(HoursInputs, {TRUE})
    \/ GetBudgetConsumption(OneScopeInputs)
    \/ Return

Spec == Init /\ [][Next]_vars

\* SpecScope: every combination of ids in the report's filter, over stores
\* whose rows differ in what exists and in which budgets are set.
NextScope ==
    \/ CreateUser
    \/ CreateClient
    \/ CreateProject(ScopeBudgetInputs)
    \/ CreatePosition(ScopeBudgetInputs, ScopeRateInputs)
    \/ CreateTimeEntry(HoursInputs, {TRUE})
    \/ GetBudgetConsumption(BudgetConsumptionInput)
    \/ Return

SpecScope == Init /\ [][NextScope]_vars

\* SpecEntries: every kind of time entry (hours that round, billable or not),
\* over positions with and without a rate.
NextEntries ==
    \/ CreateUser
    \/ CreateClient
    \/ CreateProject(EntriesBudgetInputs)
    \/ CreatePosition(EntriesBudgetInputs, RateInputs)
    \/ CreateTimeEntry(EntriesHoursInputs, BOOLEAN)
    \/ GetBudgetConsumption(OneScopeInputs)
    \/ Return

SpecEntries == Init /\ [][NextEntries]_vars

\* SpecRuns: the store of one client is filled, then left alone while up to
\* MaxRuns invocations of the report run query by query, interleaved, any
\* query failing.
NextRuns ==
    \/ Quiet /\ CreateUser
    \/ Quiet /\ clients = <<>> /\ CreateClient
    \/ Quiet /\ CreateProject(ScopeBudgetInputs)
    \/ Quiet /\ CreatePosition(ScopeBudgetInputs, ScopeRateInputs)
    \/ Quiet /\ CreateTimeEntry(HoursInputs, {TRUE})
    \/ Quiet /\ Return
    \/ StartRun(RunInputs)
    \/ StepRun
    \/ FailRun

SpecRuns == Init /\ [][NextRuns]_vars

\* SpecCreate: createTimeEntry on every kind of input, its input kept beside
\* its outcome.
NextCreate ==
    \/ CreateUser
    \/ CreateClient
    \/ CreateProject(EntriesBudgetInputs)
    \/ CreatePosition(EntriesBudgetInputs, ScopeRateInputs)
    \/ CreateTimeEntryTraced(
           CreateTimeEntryInputs(EntriesHoursInputs, TracedDateInputs, BOOLEAN))
    \/ Return

SpecCreate == Init /\ [][NextCreate]_vars

\* SpecNotes: users, clients and the notes on clients.
NextNotes ==
    \/ CreateUser
    \/ CreateClient
    \/ CreateClientNote(CreateClientNoteInputs)
    \/ Return

SpecNotes == Init /\ [][NextNotes]_vars

\* SpecIntegrity: every create handler, on parents that exist and on parents
\* that do not.
NextIntegrity ==
    \/ CreateUser
    \/ CreateClient
    \/ CreateProject(EntriesBudgetInputs)
    \/ CreatePosition(EntriesBudgetInputs, ScopeRateInputs)
    \/ CreateTimeEntry(HoursInputs, {TRUE})
    \/ CreateClientNote(CreateClientNoteInputs)
    \/ Return

SpecIntegrity == Init /\ [][NextIntegrity]_vars

\* SpecReports: two users, time entries of both on several days, billable or
\* not, under one client; the per-user reports over every period.
NextReports ==
    \/ CreateUsers(MaxReportUsers)
    \/ clients = <<>> /\ CreateClient
    \/ CreateProject(EntriesBudgetInputs)
    \/ CreatePosition(EntriesBudgetInputs, ScopeRateInputs)
    \/ CreateTimeEntryTraced(
           CreateTimeEntryInputs(ReportHoursInputs, ReportDateInputs, BOOLEAN))
    \/ GetUtilizationReport(UtilizationReportInput)
    \/ GetBookingDetails(BookingDetailsInput)
    \/ Return

SpecReports == Init /\ [][NextReports]_vars

\* The report asked for with no id set.
UnscopedInputs == {f \in RunInputs : scopeOf(f) = "all"}

\* SpecRace: the store of one client is filled, then one unscoped invocation
\* of the report runs query by query while createTimeEntry calls commit in
\* between its queries.
NextRace ==
    \/ Quiet /\ CreateUser
    \/ Quiet /\ clients = <<>> /\ CreateClient
    \/ Quiet /\ CreateProject(EntriesBudgetInputs)
    \/ Quiet /\ CreatePosition(EntriesBudgetInputs, ScopeRateInputs)
    \/ CreateTimeEntry(HoursInputs, {TRUE})
    \/ Return
    \/ Quiet /\ StartRun(UnscopedInputs)
    \/ StepRun

SpecRace == Init /\ [][NextRace]_vars

\* SpecUtilization: two users and a position, then one invocation of the
\* utilization report runs query by query while createTimeEntry calls commit
\* in between its queries.
NextUtilization ==
    \/ utilization.status = "idle" /\ CreateUsers(MaxReportUsers)
    \/ utilization.status = "idle" /\ clients = <<>> /\ CreateClient
    \/ utilization.status = "idle" /\ projects = <<>>
          /\ CreateProject(EntriesBudgetInputs)
    \/ utilization.status = "idle" /\ positions = <<>>
          /\ CreatePosition(EntriesBudgetInputs, ScopeRateInputs)
    \/ CreateTimeEntry(HoursInputs, BOOLEAN)
    \/ Return
    \/ StartUtilization(UtilizationRunInputs)
    \/ UsersQuery
    \/ AnswerQuery
    \/ FailUtilization

SpecUtilization == Init /\ [][NextUtilization]_vars

\* ------------------------------------------------------ terms of the claims
IsReportCall == call.op = "getBudgetConsumption"

\* The ids a filter sets, in the precedence the contract gives them.
SetKeys(f) == {k \in {"position_id", "project_id", "client_id"} : f[k] # UNSET}

HighestKey(f) ==
    IF f.position_id # UNSET THEN "position_id"
    ELSE IF f.project_id # UNSET THEN "project_id"
    ELSE "client_id"

\* The filter that keeps only the id of highest precedence.
OnlyHighest(f) ==
    [k \in {"position_id", "project_id", "client_id"} |->
        IF k = HighestKey(f) THEN f[k] ELSE UNSET]

TableOf(key) ==
    CASE key = "position_id" -> positions
      [] key = "project_id" -> projects
      [] key = "client_id" -> clients

\* ------------------------------------------------------------------ claims
\* C1: when a filter sets more than one id, the result is what the filter
\* with only the id of highest precedence (position_id, then project_id, then
\* client_id) returns; the ids of lower precedence have no effect.
C1_PrecedenceOfSetIds ==
    (IsReportCall /\ Cardinality(SetKeys(call.input)) > 1)
        => \A g \in BudgetConsumptionInput :
              OnlyHighest(g) = OnlyHighest(call.input)
                  => call.reports \in getBudgetConsumption(db, g)

\* C2: when the id of highest precedence names no existing entity of its
\* scope (0 included), the result is the empty list and nothing is thrown,
\* whatever the ids of lower precedence name.
C2_UnknownIdGivesEmptyList ==
    (/\ IsReportCall
     /\ SetKeys(call.input) # {}
     /\ Val(call.input[HighestKey(call.input)])
            \notin Ids(TableOf(HighestKey(call.input))))
        => (call.reports = <<>> /\ ~call.threw)

\* C3: the unscoped report is produced if and only if the filter sets none
\* of the three ids.
C3_UnscopedIffNoIdSet ==
    IsReportCall => (call.scope = "all" <=> SetKeys(call.input) = {})

\* The hours logged on the positions P, over the first n time entries, each
\* entry counted once.
RECURSIVE HoursLogged(_, _)
HoursLogged(P, n) ==
    IF n = 0 THEN 0
    ELSE (IF timeEntries[n].position_id \in P THEN timeEntries[n].hours ELSE 0)
         + HoursLogged(P, n - 1)

\* C4: the position-scope report of a position with an hourly rate has
\* consumed_amount = hourly_rate * (sum of the hours of all its time entries),
\* billable or not.
C4_PositionConsumedIsRateTimesHours ==
    (IsReportCall /\ call.scope = "position")
        => LET id == Val(call.input.position_id)
           IN  (id \in Ids(positions) /\ Row(positions, id).hourly_rate # NULL)
                  => /\ Len(call.reports) = 1
                     /\ call.reports[1].consumed_amount
                          = Val(Row(positions, id).hourly_rate)
                              * HoursLogged({id}, Len(timeEntries))

\* A rated position reported with two time entries of unequal hours on it, one
\* billable and one not, and a time entry logged on another position.
C4_Witness ==
    /\ IsReportCall /\ call.scope = "position"
    /\ Len(call.reports) = 1
    /\ call.reports[1].consumed_amount > 0
    /\ \E e, f \in Rows(timeEntries) :
          /\ e.position_id = call.reports[1].entity_id
          /\ f.position_id = call.reports[1].entity_id
          /\ e.billable /\ ~f.billable
          /\ e.hours # f.hours

\* The store without the time entries of one position.
WithoutEntriesOf(store, positionId) ==
    [store EXCEPT !.timeEntries =
        SelectSeq(@, LAMBDA e : e.position_id # positionId)]

\* The positions under an entity of the hierarchy.
PositionsUnder(type, id) ==
    CASE type = "position" -> {id} \cap Ids(positions)
      [] type = "project" ->
             {q.id : q \in {q \in Rows(positions) : q.project_id = id}}
      [] type = "client" ->
             {q.id : q \in {q \in Rows(positions) :
                 \E j \in Rows(projects) :
                     j.id = q.project_id /\ j.client_id = id}}

\* C5: hours logged on a position without an hourly rate add nothing to
\* consumed_amount: the position's own report has consumed_amount = 0, and
\* every report is what it would be had the position no time entries.
C5_NullRateHoursAddNothing ==
    IsReportCall
        => \A q \in Rows(positions) :
              q.hourly_rate = NULL
                  => /\ call.reports
                          \in getBudgetConsumption(WithoutEntriesOf(db, q.id),
                                                  call.input)
                     /\ \A i \in 1..Len(call.reports) :
                           (/\ call.reports[i].entity_type = "position"
                            /\ call.reports[i].entity_id = q.id)
                               => call.reports[i].consumed_amount = 0

\* A project reported that has a position without a rate and a position with
\* one, hours logged on both.
C5_Witness ==
    /\ IsReportCall /\ call.scope = "project"
    /\ Len(call.reports) = 1
    /\ call.reports[1].consumed_amount > 0
    /\ \E q \in Rows(positions) :
          /\ q.project_id = call.reports[1].entity_id
          /\ q.hourly_rate = NULL
          /\ HoursLogged({q.id}, Len(timeEntries)) > 0

\* The amount billed on the positions P over the first n time entries, entry
\* by entry: hours times the rate of the entry's position, nothing when the
\* position has no rate.
RECURSIVE Billed(_, _)
Billed(P, n) ==
    IF n = 0 THEN 0
    ELSE LET e == timeEntries[n]
             rate == Row(positions, e.position_id).hourly_rate
         IN  (IF e.position_id \in P /\ rate # NULL
              THEN Val(rate) * e.hours ELSE 0)
             + Billed(P, n - 1)

\* The budget an entity declares: a position's or a project's own budget, a
\* client's when one of its projects has one.
BudgetAbsent(type, id) ==
    CASE type = "position" -> Row(positions, id).budget = NULL
      [] type = "project" -> Row(projects, id).budget = NULL
      [] type = "client" ->
             \A j \in Rows(projects) : j.client_id = id => j.budget = NULL

\* C6: a report of an entity without a budget has total_budget and
\* remaining_budget absent and consumption_rate 0, while consumed_amount is
\* still the amount billed on its positions.
C6_AbsentBudget ==
    IsReportCall
        => \A i \in 1..Len(call.reports) :
              LET r == call.reports[i]
              IN  BudgetAbsent(r.entity_type, r.entity_id)
                     => /\ r.total_budget = NULL
                        /\ r.remaining_budget = NULL
                        /\ r.consumption_rate = Zero
                        /\ r.consumed_amount
                             = Billed(PositionsUnder(r.entity_type,
                                                     r.entity_id),
                                      Len(timeEntries))

\* A client without any budgeted project reported with a positive
\* consumed_amount.
C6_Witness ==
    /\ IsReportCall /\ call.scope = "client"
    /\ Len(call.reports) = 1
    /\ BudgetAbsent("client", call.reports[1].entity_id)
    /\ call.reports[1].consumed_amount > 0

\* C7: remaining_budget is absent exactly when total_budget is absent, and
\* is total_budget - consumed_amount whenever total_budget is present, a
\* budget of 0 included.
C7_RemainingIsBudgetMinusConsumed ==
    IsReportCall
        => \A i \in 1..Len(call.reports) :
              LET r == call.reports[i]
              IN  /\ r.remaining_budget = NULL <=> r.total_budget = NULL
                  /\ r.total_budget # NULL
                        => r.remaining_budget
                             = Some(Val(r.total_budget) - r.consumed_amount)

\* C8: with total_budget > 0, consumption_rate = consumed_amount /
\* total_budget * 100, unclamped: above 100, with a negative
\* remaining_budget, when consumed_amount exceeds total_budget; with
\* total_budget absent or 0 the rate is 0.
C8_RateUnclamped ==
    IsReportCall
        => \A i \in 1..Len(call.reports) :
              LET r == call.reports[i]
              IN  IF r.total_budget # NULL /\ Val(r.total_budget) > 0
                  THEN /\ r.consumption_rate.num * Val(r.total_budget)
                            = r.consumed_amount * 100 * r.consumption_rate.den
                       /\ r.consumed_amount > Val(r.total_budget)
                             => /\ r.consumption_rate.num
                                     > 100 * r.consumption_rate.den
                                /\ r.remaining_budget # NULL
                                /\ Val(r.remaining_budget) < 0
                  ELSE r.consumption_rate = Zero

\* A report whose consumed_amount exceeds its positive total_budget.
C8_Witness ==
    /\ IsReportCall
    /\ \E i \in 1..Len(call.reports) :
          /\ call.reports[i].total_budget # NULL
          /\ Val(call.reports[i].total_budget) > 0
          /\ call.reports[i].consumed_amount
                > Val(call.reports[i].total_budget)

\* The sum of consumed_amount over the position-scope reports of the
\* positions P, over the first n rows of the positions table.
RECURSIVE SumOfPositionReports(_, _)
SumOfPositionReports(P, n) ==
    IF n = 0 THEN 0
    ELSE (IF positions[n].id \in P
          THEN Val(getPositionConsumption(db, positions[n].id)).consumed_amount
          ELSE 0)
         + SumOfPositionReports(P, n - 1)

\* C9: the consumed_amount of a project's report is the sum of the
\* consumed_amount of the position-scope reports of the project's positions.
C9_ProjectIsSumOfPositions ==
    (IsReportCall /\ call.scope = "project"
          /\ Val(call.input.project_id) \in Ids(projects))
        => /\ Len(call.reports) = 1
           /\ call.reports[1].consumed_amount
                = SumOfPositionReports(
                      PositionsUnder("project", Val(call.input.project_id)),
                      Len(positions))

\* A project reported whose two positions have unequal rates and hours logged
\* on both.
C9_Witness ==
    /\ IsReportCall /\ call.scope = "project"
    /\ Len(call.reports) = 1
    /\ \E q, r \in Rows(positions) :
          /\ q.project_id = call.reports[1].entity_id
          /\ r.project_id = call.reports[1].entity_id
          /\ q.hourly_rate # NULL /\ r.hourly_rate # NULL
          /\ q.hourly_rate # r.hourly_rate
          /\ HoursLogged({q.id}, Len(timeEntries)) > 0
          /\ HoursLogged({r.id}, Len(timeEntries)) > 0

\* C10: the consumed_amount of a client's report is the sum of the
\* consumed_amount of the position-scope reports of the positions of the
\* client's projects, and of no position of another client's project.
C10_ClientIsSumOfPositions ==
    (IsReportCall /\ call.scope = "client"
          /\ Val(call.input.client_id) \in Ids(clients))
        => /\ Len(call.reports) = 1
           /\ call.reports[1].consumed_amount
                = SumOfPositionReports(
                      PositionsUnder("client", Val(call.input.client_id)),
                      Len(positions))

\* A client reported with a positive consumed_amount while a position of
\* another client's project has billed hours too.
C10_Witness ==
    /\ IsReportCall /\ call.scope = "client"
    /\ Len(call.reports) = 1
    /\ call.reports[1].consumed_amount > 0
    /\ \E q \in Rows(positions) :
          /\ q.id \notin PositionsUnder("client", call.reports[1].entity_id)
          /\ Billed({q.id}, Len(timeEntries)) > 0

\* The budgets of the projects of client cid among the first n projects, a
\* NULL budget counted as 0, in the unit of the report.
RECURSIVE BudgetsOfClient(_, _)
BudgetsOfClient(cid, n) ==
    IF n = 0 THEN 0
    ELSE BudgetsOfClient(cid, n - 1)
         + (IF projects[n].client_id = cid /\ projects[n].budget # NULL
            THEN Amount(Val(projects[n].budget))
            ELSE 0)

\* C11: for an existing client, the client report's total_budget is the sum
\* of the budgets of the client's projects, a null budget counted as 0; it is
\* absent exactly when no project of the client has a budget.
C11_ClientBudgetIsSumOfProjects ==
    (IsReportCall /\ call.scope = "client"
        /\ Val(call.input.client_id) \in Ids(clients))
        => LET cid == Val(call.input.client_id)
               budgeted == {p \in Rows(projects) :
                               p.client_id = cid /\ p.budget # NULL}
           IN  /\ Len(call.reports) = 1
               /\ call.reports[1].total_budget =
                      (IF budgeted = {} THEN NULL
                       ELSE Some(BudgetsOfClient(cid, Len(projects))))

\* A client report over two projects of the client, one with a budget and one
\* without.
C11_Witness ==
    /\ IsReportCall /\ call.scope = "client"
    /\ Len(call.reports) = 1
    /\ call.reports[1].total_budget # NULL
    /\ \E p, q \in Rows(projects) :
          /\ p.client_id = Val(call.input.client_id)
          /\ q.client_id = Val(call.input.client_id)
          /\ p.budget = NULL /\ q.budget # NULL /\ Val(q.budget) > 0

\* The report a call scoped to one entity returns for it.
ScopedReport(type, id) ==
    CASE type = "client" -> getClientConsumption(db, id)
      [] type = "project" -> getProjectConsumption(db, id)
      [] type = "position" -> getPositionConsumption(db, id)

\* The entities the unscoped report is to list: the clients owning a project
\* with a budget, the projects with a budget, the positions with a budget.
BudgetedEntities ==
    {<<"client", c.id>> : c \in {c \in Rows(clients) :
        \E p \in Rows(projects) : p.client_id = c.id /\ p.budget # NULL}}
    \cup {<<"project", p.id>> : p \in {p \in Rows(projects) : p.budget # NULL}}
    \cup {<<"position", q.id>> :
             q \in {q \in Rows(positions) : q.budget # NULL}}

\* C12: with no id in the filter, the result has a row for exactly the
\* clients owning a budgeted project, the budgeted projects and the budgeted
\* positions; each row is the report a call scoped to that entity returns; the
\* result is empty when no project and no position has a budget.
C12_UnscopedListsBudgetedEntities ==
    (IsReportCall /\ SetKeys(call.input) = {})
        => /\ {<<r.entity_type, r.entity_id>> : r \in Rows(call.reports)}
                = BudgetedEntities
           /\ \A r \in Rows(call.reports) :
                 Some(r) = ScopedReport(r.entity_type, r.entity_id)
           /\ ((\A p \in Rows(projects) : p.budget = NULL)
                  /\ (\A q \in Rows(positions) : q.budget = NULL))
                 => call.reports = <<>>

\* An unscoped result with a client row, a project row and a position row,
\* over a store that also has a client whose only project has no budget.
C12_Witness ==
    /\ IsReportCall /\ SetKeys(call.input) = {}
    /\ {r.entity_type : r \in Rows(call.reports)}
          = {"client", "project", "position"}
    /\ \E c \in Rows(clients) :
          /\ \E p \in Rows(projects) : p.client_id = c.id
          /\ \A p \in Rows(projects) : p.client_id = c.id => p.budget = NULL

\* The place of an entity type in the unscoped list.
TypeRank(type) ==
    CASE type = "client" -> 1
      [] type = "project" -> 2
      [] type = "position" -> 3

\* C13: in the list of an unscoped call every client row precedes every
\* project row and every project row precedes every position row.
C13_ClientsThenProjectsThenPositions ==
    (IsReportCall /\ call.scope = "all")
        => \A i, j \in 1..Len(call.reports) :
              i < j => TypeRank(call.reports[i].entity_type)
                          <= TypeRank(call.reports[j].entity_type)

\* An unscoped list with rows of the three types, two of them of one type.
C13_Witness ==
    /\ IsReportCall /\ call.scope = "all"
    /\ {r.entity_type : r \in Rows(call.reports)}
          = {"client", "project", "position"}
    /\ Len(call.reports) >= 4

\* C14: a report of a budgeted entity on whose positions no time entry is
\* logged has consumed_amount = 0, consumption_rate = 0 and remaining_budget
\* equal to total_budget.
C14_NothingLoggedNothingConsumed ==
    IsReportCall
        => \A i \in 1..Len(call.reports) :
              LET r == call.reports[i]
              IN  (/\ ~BudgetAbsent(r.entity_type, r.entity_id)
                   /\ \A e \in Rows(timeEntries) :
                         e.position_id
                            \notin PositionsUnder(r.entity_type, r.entity_id))
                      => /\ r.consumed_amount = 0
                         /\ r.consumption_rate = Zero
                         /\ r.remaining_budget = r.total_budget

\* The invocations that have ended, with a list or with an error.
Ended == {i \in 1..MaxRuns : runs[i].status \in {"returned", "threw"}}

Returned == {i \in 1..MaxRuns : runs[i].status = "returned"}

\* C15: getBudgetConsumption is read-only: no step of an invocation, whether
\* a query answered, a query failed or the return of the list, changes a
\* table.
C15_ReadOnly == [][runs' # runs => tables' = tables]_vars

\* One invocation has returned a list and another has thrown, over a store
\* with time entries.
C15_Witness ==
    /\ timeEntries # <<>>
    /\ \E i, j \in Ended :
          /\ runs[i].status = "returned" /\ Val(runs[i].result) # <<>>
          /\ runs[j].status = "threw"

\* Invocation j was made after invocation i had returned, with the same
\* filter; both have returned.  (No table is written once an invocation is
\* made.)
Successive(i, j) ==
    /\ i \in Returned /\ j \in Returned
    /\ i \in runs[j].after
    /\ runs[i].input = runs[j].input

\* C16: two successive calls with one filter and no write between or during
\* them return identical lists: same rows, same values, same order.
C16_SuccessiveCallsIdenticalLists ==
    \A i, j \in 1..MaxRuns :
        Successive(i, j) => runs[i].result = runs[j].result

\* C16 amended: two such calls return the same rows with the same values,
\* list of the same length, with the same entity type at every place; the
\* order of the rows of one entity type is the store's and may differ.
C16_SuccessiveCallsSameRows ==
    \A i, j \in 1..MaxRuns :
        Successive(i, j)
            => LET a == Val(runs[i].result)
                   b == Val(runs[j].result)
               IN  /\ Len(a) = Len(b)
                   /\ Rows(a) = Rows(b)
                   /\ \A k \in 1..Len(a) : a[k].entity_type = b[k].entity_type

\* Two successive unscoped calls whose lists hold the same rows in different
\* orders.
C16_Witness ==
    \E i, j \in 1..MaxRuns :
        /\ Successive(i, j)
        /\ scopeOf(runs[i].input) = "all"
        /\ runs[i].result # runs[j].result

\* C17: when a query of an invocation fails, the invocation ends with the
\* error and no list, whatever rows it had built, and it issues no further
\* query: it stays as the failure left it.
C17_FailurePropagates ==
    [][\A i \in 1..MaxRuns :
          runs'[i].failed
              => /\ runs'[i].status = "threw"
                 /\ runs'[i].result = NULL
                 /\ runs[i].failed => runs'[i] = runs[i]]_vars

\* An unscoped invocation that failed after it had built a client row and a
\* project row.
C17_Witness ==
    \E i \in 1..MaxRuns :
        /\ runs[i].failed
        /\ scopeOf(runs[i].input) = "all"
        /\ {r.entity_type : r \in Rows(runs[i].reports)}
              = {"client", "project"}

\* C18: with queries of several invocations interleaved and no write, an
\* invocation that returns, returns a list it can return when run alone on
\* the same data.
C18_InterleavedAsAlone ==
    \A i \in Returned :
        Val(runs[i].result) \in getBudgetConsumption(db, runs[i].input)

\* An unscoped invocation has returned rows while another one, made before
\* the first ended, is part-way through its queries with rows of its own.
C18_Witness ==
    \E i, j \in 1..MaxRuns :
        /\ i \in Returned /\ scopeOf(runs[i].input) = "all"
        /\ Len(Val(runs[i].result)) >= 3
        /\ runs[j].status = "running"
        /\ i \notin runs[j].after
        /\ runs[j].reports # <<>>

\* A step that is one call of the handler named op.
IsCallOf(op) == call.op = "none" /\ call'.op = op

\* The time entry e carries the user, the position, the day and the billable
\* flag of the input.
CarriesAllButHours(e, input) ==
    /\ e.user_id = input.user_id
    /\ e.position_id = input.position_id
    /\ 2 * e.date <= input.date /\ input.date < 2 * e.date + 2
    /\ e.billable = input.billable

\* Exactly one row is appended to the table `before', giving `after'.
OneRowAppended(before, after) ==
    /\ Len(after) = Len(before) + 1
    /\ SubSeq(after, 1, Len(before)) = before

\* C19: createTimeEntry throws and inserts nothing when the input's user or
\* position does not exist; when both exist it inserts exactly one time entry
\* carrying the input's user, position, hours, date and billable flag.
C19_TimeEntryCarriesInput ==
    [][IsCallOf("createTimeEntry")
          => LET input == Val(call'.input)
             IN  IF input.user_id \notin Ids(users)
                    \/ input.position_id \notin Ids(positions)
                 THEN call'.threw /\ timeEntries' = timeEntries
                 ELSE /\ ~call'.threw
                      /\ OneRowAppended(timeEntries, timeEntries')
                      /\ LET e == timeEntries'[Len(timeEntries')]
                         IN  /\ CarriesAllButHours(e, input)
                             /\ e.hours * 10 = input.hours]_vars

\* C19 amended: as C19, the inserted entry carrying the input's hours rounded
\* to two decimal places.
C19_TimeEntryCarriesRoundedHours ==
    [][IsCallOf("createTimeEntry")
          => LET input == Val(call'.input)
             IN  IF input.user_id \notin Ids(users)
                    \/ input.position_id \notin Ids(positions)
                 THEN call'.threw /\ timeEntries' = timeEntries
                 ELSE /\ ~call'.threw
                      /\ OneRowAppended(timeEntries, timeEntries')
                      /\ LET e == timeEntries'[Len(timeEntries')]
                         IN  /\ CarriesAllButHours(e, input)
                             /\ 10 * e.hours - 5 <= input.hours
                             /\ input.hours < 10 * e.hours + 5]_vars

\* A createTimeEntry call has just inserted a second time entry, its hours
\* rounded on storage and its instant not at midnight.
C19_Witness ==
    /\ call.op = "createTimeEntry" /\ ~call.threw
    /\ Len(timeEntries) = 2
    /\ timeEntries[2].hours * 10 # Val(call.input).hours
    /\ 2 * timeEntries[2].date # Val(call.input).date

\* C20: createClientNote throws a `not found' error and inserts nothing when
\* the input's client or user does not exist; otherwise it appends exactly one
\* note, carrying the input, and leaves the earlier notes as they are, so
\* that each successful call adds one to the notes of its client.
C20_ClientNoteAppended ==
    [][IsCallOf("createClientNote")
          => LET input == Val(call'.input)
                 NotesOf(table) ==
                     SelectSeq(table, LAMBDA n : n.client_id = input.client_id)
             IN  IF input.client_id \notin Ids(clients)
                    \/ input.user_id \notin Ids(users)
                 THEN /\ call'.threw
                      /\ call'.error \in {"Client not found", "User not found"}
                      /\ clientNotes' = clientNotes
                 ELSE /\ ~call'.threw
                      /\ OneRowAppended(clientNotes, clientNotes')
                      /\ LET n == clientNotes'[Len(clientNotes')]
                         IN  /\ n.client_id = input.client_id
                             /\ n.user_id = input.user_id
                             /\ n.note = input.note
                      /\ Len(NotesOf(clientNotes'))
                            = Len(NotesOf(clientNotes)) + 1]_vars

\* A createClientNote call has just added the third note of a client, a
\* second client having none.
C20_Witness ==
    /\ call.op = "createClientNote" /\ ~call.threw
    /\ Len(clientNotes) = 3
    /\ \A i \in 1..3 : clientNotes[i].client_id = Val(call.input).client_id
    /\ Len(clients) = 2

\* Every reference of a row names an existing row of the parent table.
ReferentialIntegrity ==
    /\ \A p \in Rows(projects) : p.client_id \in Ids(clients)
    /\ \A q \in Rows(positions) : q.project_id \in Ids(projects)
    /\ \A e \in Rows(timeEntries) :
          e.user_id \in Ids(users) /\ e.position_id \in Ids(positions)
    /\ \A n \in Rows(clientNotes) :
          n.client_id \in Ids(clients) /\ n.user_id \in Ids(users)

\* The table a create handler inserts into.
TableWrittenBy(op, store) ==
    CASE op = "createProject" -> store.projects
      [] op = "createPosition" -> store.positions
      [] op = "createTimeEntry" -> store.timeEntries
      [] op = "createClientNote" -> store.clientNotes

\* C21: after every step referential integrity holds; a call of createProject,
\* createPosition, createTimeEntry or createClientNote either is rejected and
\* leaves every table unchanged, or inserts exactly one row, whose parents
\* exist.
C21_ReferentialIntegrity ==
    [][/\ ReferentialIntegrity'
       /\ \A op \in {"createProject", "createPosition", "createTimeEntry",
                     "createClientNote"} :
             IsCallOf(op)
                => IF call'.threw
                   THEN tables' = tables
                   ELSE OneRowAppended(TableWrittenBy(op, db),
                                       TableWrittenBy(op, db'))]_vars

\* A create has just been rejected on a store that holds a row of every
\* table, every parent table having a row no child refers to and an id
\* nothing was created for.
C21_Witness ==
    /\ call.threw
    /\ call.op \in {"createProject", "createPosition", "createTimeEntry",
                    "createClientNote"}
    /\ Len(clients) = 2 /\ Len(projects) = 2 /\ Len(positions) = 1
    /\ timeEntries # <<>> /\ clientNotes # <<>>

IsUtilizationCall == call.op = "getUtilizationReport"

\* The day of an instant, as the contract counts periods: whole UTC days.
DayOf(instant) == CHOOSE d \in 0..instant : 2 * d <= instant /\ instant < 2 * d + 2

\* The hours of the time entries of user u dated from day `from' to day `to',
\* both included, among the first n time entries; only the billable ones
\* when billableOnly.
RECURSIVE HoursInPeriod(_, _, _, _, _)
HoursInPeriod(u, from, to, billableOnly, n) ==
    IF n = 0 THEN 0
    ELSE LET e == timeEntries[n]
         IN  (IF /\ e.user_id = u
                 /\ from <= e.date /\ e.date <= to
                 /\ (billableOnly => e.billable)
              THEN e.hours ELSE 0)
             + HoursInPeriod(u, from, to, billableOnly, n - 1)

\* C22: without user_id the report list has exactly one report per existing
\* user, a user without time entries in the period having total_hours,
\* billable_hours and utilization_rate 0; with a user_id that names an
\* existing user it has exactly that user's report; with a user_id that names
\* no existing user, or with no user at all, it is empty.
C22_OneReportPerUser ==
    IsUtilizationCall
        => LET input == call.input
               reported == {r.user_id : r \in Rows(call.reports)}
           IN  /\ Cardinality(reported) = Len(call.reports)
               /\ IF input.user_id = UNSET
                  THEN /\ reported = Ids(users)
                       /\ \A r \in Rows(call.reports) :
                             (\A e \in Rows(timeEntries) :
                                 e.user_id = r.user_id
                                    => \/ e.date < DayOf(input.start_date)
                                       \/ e.date > DayOf(input.end_date))
                                => /\ r.total_hours = 0
                                   /\ r.billable_hours = 0
                                   /\ r.utilization_rate = 0
                  ELSE IF Val(input.user_id) \in Ids(users)
                  THEN reported = {Val(input.user_id)}
                  ELSE call.reports = <<>>

\* C23: in every report total_hours is the sum of the hours of the user's
\* time entries dated within the period, both bounding days included, and
\* billable_hours the sum over the billable ones among them; other entries
\* add nothing.
C23_HoursOfUserInPeriod ==
    IsUtilizationCall
        => \A r \in Rows(call.reports) :
              LET from == DayOf(call.input.start_date)
                  to == DayOf(call.input.end_date)
              IN  /\ r.total_hours
                       = HoursInPeriod(r.user_id, from, to, FALSE,
                                       Len(timeEntries))
                  /\ r.billable_hours
                       = HoursInPeriod(r.user_id, from, to, TRUE,
                                       Len(timeEntries))

\* A report over a period of one day, one bound of it a noon instant, with
\* hours of an entry of that day, while another entry (of another user or
\* of another day) is left out.
C23_Witness ==
    /\ IsUtilizationCall
    /\ call.input.end_date = 3 \/ call.input.start_date = 3
    /\ \E r \in Rows(call.reports) :
          /\ r.total_hours > 0
          /\ \E e \in Rows(timeEntries) :
                /\ e.user_id = r.user_id
                /\ e.date = DayOf(call.input.end_date)
                /\ e.date = DayOf(call.input.start_date)
          /\ Len(timeEntries) = 2
          /\ r.total_hours < timeEntries[1].hours + timeEntries[2].hours

\* C24: utilization_rate is billable_hours / total_hours * 100 rounded to two
\* decimal places (the nearest hundredth of a percent) when total_hours > 0,
\* and 0 when total_hours = 0.
C24_RateRoundedToTwoDecimals ==
    IsUtilizationCall
        => \A r \in Rows(call.reports) :
              IF r.total_hours > 0
              THEN LET exact == r.billable_hours * 10000
                       shown == r.utilization_rate * r.total_hours
                   IN  /\ 2 * (shown - exact) <= r.total_hours
                       /\ 2 * (exact - shown) <= r.total_hours
              ELSE r.utilization_rate = 0

\* A report whose rate is two thirds of 100, rounded up to 66.67.
C24_Witness ==
    /\ IsUtilizationCall
    /\ \E r \in Rows(call.reports) :
          /\ r.total_hours = 300 /\ r.billable_hours = 200
          /\ r.utilization_rate = 6667

IsBookingCall == call.op = "getBookingDetails"

\* The time entries of the named user dated within the period of a booking
\* details call, both bounding days included.
Booked ==
    {e \in Rows(timeEntries) :
        /\ e.user_id = call.input.user_id
        /\ DayOf(call.input.start_date) <= e.date
        /\ e.date <= DayOf(call.input.end_date)}

\* The hours of the time entries with an id in `ids', among the first n.
RECURSIVE HoursOfEntries(_, _)
HoursOfEntries(ids, n) ==
    IF n = 0 THEN 0
    ELSE (IF timeEntries[n].id \in ids THEN timeEntries[n].hours ELSE 0)
         + HoursOfEntries(ids, n - 1)

\* C25: getBookingDetails returns one group per distinct date of the named
\* user's time entries within the period, most recent date first; each such
\* entry is in exactly one group, that of its date; no other entry appears;
\* a group's total_hours is the sum of the hours of its entries.
C25_GroupsByDateMostRecentFirst ==
    IsBookingCall
        => LET groups == call.reports
               Places == {<<k, m>> \in (1..Len(groups)) \X (1..MaxEntries) :
                             m <= Len(groups[k].entries)}
               IdAt(pl) == groups[pl[1]].entries[pl[2]].time_entry_id
           IN  /\ {groups[k].date : k \in 1..Len(groups)}
                    = {e.date : e \in Booked}
               /\ \A i, j \in 1..Len(groups) :
                     i < j => groups[i].date > groups[j].date
               /\ \A e \in Booked :
                     /\ Cardinality({pl \in Places : IdAt(pl) = e.id}) = 1
                     /\ \A pl \in Places :
                           IdAt(pl) = e.id
                              => /\ groups[pl[1]].date = e.date
                                 /\ groups[pl[1]].entries[pl[2]].hours
                                       = e.hours
               /\ \A pl \in Places : \E e \in Booked : IdAt(pl) = e.id
               /\ \A k \in 1..Len(groups) :
                     /\ groups[k].entries # <<>>
                     /\ groups[k].total_hours
                          = HoursOfEntries(
                               {groups[k].entries[m].time_entry_id :
                                   m \in 1..Len(groups[k].entries)},
                               Len(timeEntries))

\* Two groups, the named user's entries being of two days of the period.
C25_Witness ==
    /\ IsBookingCall
    /\ Len(call.reports) = 2
    /\ call.reports[1].total_hours # call.reports[2].total_hours

\* The sum of consumed_amount over the rows of `list' that pick(row) selects,
\* over the first n rows.
RECURSIVE ConsumedOfRows(_, _, _)
ConsumedOfRows(list, pick(_), n) ==
    IF n = 0 THEN 0
    ELSE (IF pick(list[n]) THEN list[n].consumed_amount ELSE 0)
         + ConsumedOfRows(list, pick, n - 1)

\* The rows of `list' for positions of project `projectId'.
IsPositionRowOf(projectId, row) ==
    /\ row.entity_type = "position"
    /\ \E p \in Rows(positions) :
          p.id = row.entity_id /\ p.project_id = projectId

\* The rows of `list' for projects of client `clientId'.
IsProjectRowOf(clientId, row) ==
    /\ row.entity_type = "project"
    /\ \E p \in Rows(projects) :
          p.id = row.entity_id /\ p.client_id = clientId

\* C26: the list of one unscoped invocation is consistent in itself, also
\* when time entries are committed between its queries: a project row's
\* consumed_amount is the sum of its positions' rows (when all its positions
\* have a budget, hence a row), and a client row's consumed_amount is at
\* least the sum of its projects' rows.
C26_UnscopedListConsistent ==
    \A i \in Returned :
        scopeOf(runs[i].input) = "all" =>
            LET list == Val(runs[i].result)
            IN  \A k \in 1..Len(list) :
                  /\ (/\ list[k].entity_type = "project"
                      /\ \A p \in Rows(positions) :
                            p.project_id = list[k].entity_id
                                => p.budget # NULL)
                        => list[k].consumed_amount
                             = ConsumedOfRows(list,
                                   LAMBDA r : IsPositionRowOf(
                                                  list[k].entity_id, r),
                                   Len(list))
                  /\ list[k].entity_type = "client"
                        => list[k].consumed_amount
                             >= ConsumedOfRows(list,
                                    LAMBDA r : IsProjectRowOf(
                                                   list[k].entity_id, r),
                                    Len(list))

\* C27: in every row the utilization report returns, billable hours are at
\* most the total hours and the rate lies between 0 and 100 percent, also
\* when time entries of the user are committed while the total-hours and the
\* billable-hours query are in flight.
C27_BillableWithinTotal ==
    utilization.status = "returned" =>
        \A k \in 1..Len(Val(utilization.result)) :
            LET r == Val(utilization.result)[k]
            IN  /\ r.billable_hours <= r.total_hours
                /\ 0 <= r.utilization_rate
                /\ r.utilization_rate <= 10000

\* The report the handler gives for one entity on `store', NULL when it
\* gives none.
ReportOn(store, type, id) ==
    CASE type = "client" -> getClientConsumption(store, id)
      [] type = "project" -> getProjectConsumption(store, id)
      [] type = "position" -> getPositionConsumption(store, id)

\* C28: whatever is created, an entity's consumed_amount as the report gives
\* it is never negative and never less than it was before, and, while the
\* entity's total_budget stays the same, its remaining_budget is never more
\* than it was before; an entity reported once is reported ever after.
C28_ConsumedNeverDecreases ==
    [][\A type \in {"client", "project", "position"}, id \in IdInputs :
          LET old == ReportOn(db, type, id)
              new == ReportOn(db', type, id)
          IN  (tables' # tables /\ old # NULL) =>
                /\ new # NULL
                /\ Val(old).consumed_amount >= 0
                /\ Val(new).consumed_amount >= Val(old).consumed_amount
                /\ (/\ Val(new).total_budget = Val(old).total_budget
                    /\ Val(old).remaining_budget # NULL)
                      => /\ Val(new).remaining_budget # NULL
                         /\ Val(new).remaining_budget[1]
                              <= Val(old).remaining_budget[1]]_vars

\* A position reported with an amount consumed, made of two time entries
\* with hours, created one after the other.
C28_Witness ==
    /\ IsReportCall /\ call.scope = "position"
    /\ Len(call.reports) = 1
    /\ call.reports[1].consumed_amount > 0
    /\ call.reports[1].remaining_budget # NULL
    /\ Len(timeEntries) = 2
    /\ \A k \in 1..2 :
          /\ timeEntries[k].position_id = call.reports[1].entity_id
          /\ timeEntries[k].hours > 0

\* The id the filter gives for the scope of a branch.
IdGivenFor(f, scope) ==
    CASE scope = "position" -> f.position_id
      [] scope = "project" -> f.project_id
      [] scope = "client" -> f.client_id

\* C29: a call whose filter sets at least one id returns at most one report,
\* and the report it returns is of the scope the handler selected and of the
\* entity the filter names for that scope.
C29_ScopedCallReportsItsEntity ==
    (IsReportCall /\ SetKeys(call.input) # {})
        => /\ Len(call.reports) <= 1
           /\ Len(call.reports) = 1
                => /\ call.scope \in {"position", "project", "client"}
                   /\ call.reports[1].entity_type = call.scope
                   /\ IdGivenFor(call.input, call.scope)
                        = Some(call.reports[1].entity_id)

\* C30: in the list of an unscoped call no entity (type and id) has more than
\* one row, and every row has a total_budget.
C30_OneRowPerBudgetedEntity ==
    (IsReportCall /\ call.scope = "all")
        => /\ \A i, j \in 1..Len(call.reports) :
                 (/\ call.reports[i].entity_type = call.reports[j].entity_type
                  /\ call.reports[i].entity_id = call.reports[j].entity_id)
                     => i = j
           /\ \A i \in 1..Len(call.reports) :
                 call.reports[i].total_budget # NULL

\* An unscoped list with the row of a client that owns two projects with a
\* budget.
C30_Witness ==
    /\ IsReportCall /\ call.scope = "all"
    /\ \E i \in 1..Len(call.reports) :
          /\ call.reports[i].entity_type = "client"
          /\ \A p \in Rows(projects) :
                p.client_id = call.reports[i].entity_id /\ p.budget # NULL
          /\ Len(projects) = 2

====
